---- MODULE Spec2Model ----
(***************************************************************************)
(* Sleep Calculator Bot (src/bot.py): the 90-minute sleep-cycle            *)
(* calculators, the free-text time parser and the text handlers that       *)
(* call them.                                                              *)
(*                                                                         *)
(* A datetime is a record [day, hour, minute, second]; day counts          *)
(* calendar days (the proleptic ordinal), microseconds are left out: no    *)
(* operation of the program reads them.  A text is a sequence of           *)
(* one-character strings.                                                  *)
(***************************************************************************)
EXTENDS Integers, Sequences, FiniteSets, TLC

VARIABLES
    input,        \* SpecCalc: the datetime handed to the calculators
    called,       \* SpecCalc: the calculators that have run on input
    bedtimes,     \* SpecCalc: what calculate_bedtimes returned
    wake_times,   \* SpecCalc: what calculate_wake_times returned
    parts,        \* SpecParse: how the user wrote the text
    text,         \* SpecParse: update.message.text
    now,          \* SpecParse: what datetime.now() returns during the call
    handler,      \* SpecParse: the operation that has run on text
    result,       \* SpecParse: what that operation returned
    bed_message,  \* SpecCalc: what build_bedtime_message returned
    wake_message, \* SpecCalc: what build_wake_message returned
    frames,       \* SpecConc: the calculator call each user's handler is in
    conv,         \* SpecBot: the user's state in the /wake-/sleep conversation
    context_user_data,  \* SpecBot: context.user_data of the user
    last,         \* SpecBot: the last update and what its handler did
    opened        \* SpecBot: the prompts sent and not yet answered, oldest first

calcVars == <<input, called, bedtimes, wake_times>>
parseVars == <<parts, text, now, handler, result>>
messageVars == <<bed_message, wake_message>>
concVars == <<frames>>
botVars == <<conv, context_user_data, last, opened>>
vars == <<input, called, bedtimes, wake_times, parts, text, now, handler, result,
          bed_message, wake_message, frames, conv, context_user_data, last, opened>>

---------------------------------------------------------------------------
(* Constants, src/bot.py:29-36 *)

SLEEP_CYCLE_MINUTES == 90
FALL_ASLEEP_MINUTES == 14
MIN_CYCLES == 4
MAX_CYCLES == 6
WAITING_FOR_WAKE_TIME == 1
WAITING_FOR_SLEEP_TIME == 2
\* telegram.ext.ConversationHandler.END
END == -1

\* Python's None
None == [none |-> TRUE]

---------------------------------------------------------------------------
(* Bounds of the model *)

\* the calendar days datetime.now() falls on are 1..MaxDay
MaxDay == 2

\* the texts a user sends name hours 0..MaxHourText
MaxHourText == 25

\* the texts a user sends name minutes 0..MaxMinuteText
MaxMinuteText == 61

\* the texts a user sends hold up to MaxSpaces blanks before the meridiem
MaxSpaces == 2

\* the users whose handlers call the calculators at the same time are
\* 1..NumUsers
NumUsers == 2

---------------------------------------------------------------------------
(* datetime and timedelta arithmetic *)

MinutesPerDay == 24 * 60

\* the minutes from day 0, 00:00 to dt (its seconds aside)
ToMinutes(dt) == dt.day * MinutesPerDay + dt.hour * 60 + dt.minute

\* datetime + timedelta(minutes=n): the carry runs through hours into days,
\* the seconds are kept
AddMinutes(dt, n) ==
    LET total == ToMinutes(dt) + n
    IN  [day    |-> total \div MinutesPerDay,
         hour   |-> (total % MinutesPerDay) \div 60,
         minute |-> total % 60,
         second |-> dt.second]

\* slip: the timedelta is added where it is to be subtracted
SubMinutesAdds(dt, n) == AddMinutes(dt, n)

\* datetime - timedelta(minutes=n)
SubMinutes(dt, n) == AddMinutes(dt, 0 - n)

\* now.replace(hour=h, minute=m, second=0, microsecond=0)
Replace(dt, h, m) == [day |-> dt.day, hour |-> h, minute |-> m, second |-> 0]

---------------------------------------------------------------------------
(* calculate_bedtimes, src/bot.py:41-48 *)

\* slip: range(MAX_CYCLES, MIN_CYCLES, -1) leaves MIN_CYCLES out
BedtimesStopOffByOne == MIN_CYCLES

\* the for loop's range(MAX_CYCLES, MIN_CYCLES - 1, -1): cycles counts down
\* while it is above the stop value
BedtimesStop == MIN_CYCLES - 1

\* slip: the time to fall asleep is left out of the sleep total
BedtimeTotalSleepNoFallAsleep(cycles) == cycles * SLEEP_CYCLE_MINUTES

\* timedelta(minutes=cycles * SLEEP_CYCLE_MINUTES + FALL_ASLEEP_MINUTES)
BedtimeTotalSleep(cycles) == cycles * SLEEP_CYCLE_MINUTES + FALL_ASLEEP_MINUTES

RECURSIVE BedtimesLoop(_, _, _)
BedtimesLoop(wake_time, cycles, acc) ==
    IF cycles <= BedtimesStop
    THEN acc
    ELSE BedtimesLoop(wake_time, cycles - 1,
             Append(acc, [time   |-> SubMinutes(wake_time, BedtimeTotalSleep(cycles)),
                          cycles |-> cycles]))

\* slip: the loop counts up, range(MIN_CYCLES, MAX_CYCLES + 1)
calculate_bedtimes_ascending(wake_time) ==
    LET r == BedtimesLoop(wake_time, MAX_CYCLES, <<>>)
    IN  [i \in 1..Len(r) |-> r[Len(r) + 1 - i]]

calculate_bedtimes(wake_time) == BedtimesLoop(wake_time, MAX_CYCLES, <<>>)

---------------------------------------------------------------------------
(* calculate_wake_times, src/bot.py:51-59 *)

\* slip: the time to fall asleep is not added
FallAsleepTimeSkipped(sleep_time) == sleep_time

\* fall_asleep_time = sleep_time + timedelta(minutes=FALL_ASLEEP_MINUTES)
FallAsleepTime(sleep_time) == AddMinutes(sleep_time, FALL_ASLEEP_MINUTES)

\* the for loop's range(MIN_CYCLES, MAX_CYCLES + 1): cycles counts up while
\* it is below the stop value
WakeTimesStop == MAX_CYCLES + 1

RECURSIVE WakeTimesLoop(_, _, _)
WakeTimesLoop(fall_asleep_time, cycles, acc) ==
    IF cycles >= WakeTimesStop
    THEN acc
    ELSE WakeTimesLoop(fall_asleep_time, cycles + 1,
             Append(acc, [time   |-> AddMinutes(fall_asleep_time, cycles * SLEEP_CYCLE_MINUTES),
                          cycles |-> cycles]))

\* slip: the loop counts down, as calculate_bedtimes does
calculate_wake_times_descending(sleep_time) ==
    LET r == WakeTimesLoop(FallAsleepTime(sleep_time), MIN_CYCLES, <<>>)
    IN  [i \in 1..Len(r) |-> r[Len(r) + 1 - i]]

calculate_wake_times(sleep_time) ==
    WakeTimesLoop(FallAsleepTime(sleep_time), MIN_CYCLES, <<>>)

---------------------------------------------------------------------------
(* datetime.strptime(text, fmt), src/bot.py:78, for the five formats of     *)
(* src/bot.py:74.  strptime compiles the format into a regular expression    *)
(* (flag IGNORECASE), matches it at the start of the text with re.match,     *)
(* raises ValueError when it does not match or when text remains after the   *)
(* match, and computes the hour and minute from the groups found.            *)

\* the formats list: each format as the elements of its regular expression.
\* "I" is %I, (?P<I>1[0-2]|0[1-9]|[1-9]); "H" is %H, (?P<H>2[0-3]|[0-1]\d|\d);
\* "M" is %M, (?P<M>[0-5]\d|\d); "p" is %p, (?P<p>am|pm); ":" is itself;
\* "ws" is a blank of the format, which strptime turns into \s+
formats ==
    << <<"I", ":", "M", "ws", "p">>,     \* "%I:%M %p"
       <<"I", ":", "M", "p">>,           \* "%I:%M%p"
       <<"H", ":", "M">>,                \* "%H:%M"
       <<"I", "ws", "p">>,               \* "%I %p"
       <<"I", "p">> >>                   \* "%I%p"

DigitChars == <<"0", "1", "2", "3", "4", "5", "6", "7", "8", "9">>

\* int(c) of a character that \d matches, -1 of any other
Digit(c) ==
    CASE c = "0" -> 0 [] c = "1" -> 1 [] c = "2" -> 2 [] c = "3" -> 3 [] c = "4" -> 4
      [] c = "5" -> 5 [] c = "6" -> 6 [] c = "7" -> 7 [] c = "8" -> 8 [] c = "9" -> 9
      [] OTHER -> -1

\* \s, and what str.strip() removes
IsSpace(c) == c \in {" ", "\t"}

\* str.lower() of one character
Lower(c) ==
    CASE c = "A" -> "a"
      [] c = "M" -> "m"
      [] c = "P" -> "p"
      [] OTHER -> c

\* the character at index i, "" beyond the end of the text
At(s, i) == IF i \in 1..Len(s) THEN s[i] ELSE ""

\* the number of consecutive \s characters from index i
RECURSIVE SpaceRun(_, _)
SpaceRun(s, i) == IF IsSpace(At(s, i)) THEN 1 + SpaceRun(s, i + 1) ELSE 0

\* the alternatives of one element that match at index pos, where the text
\* reads the characters c1, c2 and then a run of blanks \s of length run, in
\* the order the regular expression engine tries them; each gives the index
\* after the match and the group's value
CandidatesAt(el, pos, c1, c2, d1, d2, run) ==
    LET one(ok, len, val) == [ok |-> ok, end |-> pos + len, val |-> val]
        alts ==
            CASE el = "I" ->
                    << one(d1 = 1 /\ d2 \in 0..2, 2, 10 * d1 + d2),    \* 1[0-2]
                       one(d1 = 0 /\ d2 \in 1..9, 2, 10 * d1 + d2),    \* 0[1-9]
                       one(d1 \in 1..9, 1, d1) >>                      \* [1-9]
              [] el = "H" ->
                    << one(d1 = 2 /\ d2 \in 0..3, 2, 10 * d1 + d2),    \* 2[0-3]
                       one(d1 \in 0..1 /\ d2 \in 0..9, 2, 10 * d1 + d2), \* [0-1]\d
                       one(d1 \in 0..9, 1, d1) >>                      \* \d
              [] el = "M" ->
                    << one(d1 \in 0..5 /\ d2 \in 0..9, 2, 10 * d1 + d2), \* [0-5]\d
                       one(d1 \in 0..9, 1, d1) >>                      \* \d
              [] el = "p" ->
                    << one(c1 = "a" /\ c2 = "m", 2, "am"),
                       one(c1 = "p" /\ c2 = "m", 2, "pm") >>
              [] el = ":" ->
                    << one(c1 = ":", 1, ":") >>
              [] el = "ws" ->
                    \* \s+ is greedy: the longest run first, then shorter ones
                    [j \in 1..run |-> one(TRUE, run + 1 - j, " ")]
    IN  SelectSeq(alts, LAMBDA a : a.ok)

\* c1, c2: the next two characters with IGNORECASE applied; d1, d2: their
\* values as digits
Candidates(el, s, pos) ==
    CandidatesAt(el, pos, Lower(At(s, pos)), Lower(At(s, pos + 1)),
                 Digit(At(s, pos)), Digit(At(s, pos + 1)), SpaceRun(s, pos))

\* the named groups of a match that has found nothing yet: -1 and "" stand
\* for a group that is not in found_dict
NoGroups == [e \in {"I", "H", "M", "p"} |-> IF e = "p" THEN "" ELSE -1]

NoMatch == [ok |-> FALSE, end |-> 0, groups |-> NoGroups]

\* the first of two attempts that matches
OrElse(r, other) == IF r.ok THEN r ELSE other

\* re.match by backtracking: the elements from the k-th on matched from
\* index pos, each element's alternatives tried in order, the first
\* alternative under which the rest matches taken
RECURSIVE Match(_, _, _, _, _)
RECURSIVE TryCandidates(_, _, _, _, _, _)
Match(fmt, k, s, pos, groups) ==
    IF k > Len(fmt)
    THEN [ok |-> TRUE, end |-> pos, groups |-> groups]
    ELSE TryCandidates(fmt, k, s, Candidates(fmt[k], s, pos), 1, groups)
TryCandidates(fmt, k, s, cands, j, groups) ==
    IF j > Len(cands)
    THEN NoMatch
    ELSE OrElse(Match(fmt, k + 1, s, cands[j].end,
                      IF fmt[k] \in DOMAIN groups
                      THEN [groups EXCEPT ![fmt[k]] = cands[j].val]
                      ELSE groups),
                TryCandidates(fmt, k, s, cands, j + 1, groups))

\* raised by strptime, caught at src/bot.py:80
ValueError == [error |-> "ValueError"]

\* slip: 12 hours are added for "pm" whatever the hour, so 12 PM is hour 24
HourOfIAlwaysAdds(hour, ampm) ==
    IF ampm = "pm" THEN hour + 12 ELSE IF hour = 12 THEN 0 ELSE hour

\* the hour of a %I group: 12 AM is hour 0, 12 PM is hour 12, any other PM
\* hour has 12 added; no %p group counts as AM
HourOfI(hour, ampm) ==
    IF ampm \in {"", "am"}
    THEN IF hour = 12 THEN 0 ELSE hour
    ELSE IF ampm = "pm"
         THEN IF hour # 12 THEN hour + 12 ELSE hour
         ELSE hour

\* slip: text after the match is not refused ("unconverted data remains")
MatchedAllPrefixOnly(s, found) == TRUE

\* len(data_string) == found.end()
MatchedAll(s, found) == Len(s) = found.end - 1

\* the hour and minute strptime computes from the groups found
TimeOfGroups(g) ==
    [hour   |-> IF g["H"] >= 0 THEN g["H"]
                ELSE IF g["I"] >= 0 THEN HourOfI(g["I"], g["p"])
                ELSE 0,
     minute |-> IF g["M"] >= 0 THEN g["M"] ELSE 0]

\* what strptime makes of the match found
StrptimeFound(s, found) ==
    IF ~found.ok
    THEN ValueError
    ELSE IF ~MatchedAll(s, found)
    THEN ValueError
    ELSE TimeOfGroups(found.groups)

\* datetime.strptime(s, fmt): the hour and minute of the parsed value, or
\* ValueError
strptime(s, fmt) == StrptimeFound(s, Match(fmt, 1, s, 1, NoGroups))

---------------------------------------------------------------------------
(* parse_time, src/bot.py:71-82 *)

\* text.strip()
RECURSIVE LStrip(_)
LStrip(s) == IF Len(s) > 0 /\ IsSpace(s[1]) THEN LStrip(Tail(s)) ELSE s
RECURSIVE RStrip(_)
RStrip(s) ==
    IF Len(s) > 0 /\ IsSpace(s[Len(s)]) THEN RStrip(SubSeq(s, 1, Len(s) - 1)) ELSE s
Strip(s) == RStrip(LStrip(s))

\* slip: the loop does not return at the first match, the last match is kept
RECURSIVE ParseLoopNoReturn(_, _, _, _, _)
RECURSIVE ParseTriedNoReturn(_, _, _, _, _, _)
ParseLoopNoReturn(s, clock, i, tried, value) ==
    IF i > Len(formats)
    THEN [value |-> value, tried |-> tried]
    ELSE ParseTriedNoReturn(s, clock, i, tried, value, strptime(s, formats[i]))
ParseTriedNoReturn(s, clock, i, tried, value, t) ==
    ParseLoopNoReturn(s, clock, i + 1, Append(tried, i),
        IF t # ValueError THEN Replace(clock, t.hour, t.minute) ELSE value)
ParseLoopKeepsLast(s, clock, i, tried) == ParseLoopNoReturn(s, clock, i, tried, None)

\* the for loop over formats from the i-th on: the value returned, and the
\* indices of the formats handed to strptime on the way.  ParseTried is the
\* loop body once strptime has given t
RECURSIVE ParseLoop(_, _, _, _)
RECURSIVE ParseTried(_, _, _, _, _)
ParseLoop(s, clock, i, tried) ==
    IF i > Len(formats)
    THEN [value |-> None, tried |-> tried]
    ELSE ParseTried(s, clock, i, tried, strptime(s, formats[i]))
ParseTried(s, clock, i, tried, t) ==
    IF t # ValueError
    THEN [value |-> Replace(clock, t.hour, t.minute), tried |-> Append(tried, i)]
    ELSE ParseLoop(s, clock, i + 1, Append(tried, i))

\* one run of parse_time(text) while datetime.now() returns clock
parse_time_run(txt, clock) == ParseLoop(Strip(txt), clock, 1, <<>>)

\* what parse_time(text) returns: a datetime or None
parse_time(txt, clock) == parse_time_run(txt, clock).value

---------------------------------------------------------------------------
(* The presenter: format_time, cycles_to_hours, build_bedtime_message and   *)
(* build_wake_message, src/bot.py:62-114.  A message is the list of its     *)
(* lines, which "\n".join puts one under the other; a line is a record of   *)
(* the values its f-string holds.                                           *)

\* "%02d" % n
TwoDigits(n) == <<DigitChars[((n \div 10) % 10) + 1], DigitChars[(n % 10) + 1]>>

\* the hour of the 12-hour clock, %I
Hour12(hour) == IF hour % 12 = 0 THEN 12 ELSE hour % 12

\* dt.strftime("%I:%M %p")
format_time(dt) ==
    TwoDigits(Hour12(dt.hour)) \o <<":">> \o TwoDigits(dt.minute) \o <<" ">>
    \o (IF dt.hour < 12 THEN <<"A", "M">> ELSE <<"P", "M">>)

\* hours = (cycles * SLEEP_CYCLE_MINUTES) / 60 in tenths of an hour, as
\* "{hours:.1f}" rounds it
HoursTenths(cycles) == (cycles * SLEEP_CYCLE_MINUTES * 10 + 30) \div 60

\* f"{hours:.1f}h"
cycles_to_hours(cycles) ==
    (IF HoursTenths(cycles) >= 100
     THEN TwoDigits(HoursTenths(cycles) \div 10)
     ELSE <<DigitChars[(HoursTenths(cycles) \div 10) + 1]>>)
    \o <<".", DigitChars[(HoursTenths(cycles) % 10) + 1], "h">>

\* emojis = ["🥇", "🥈", "🥉", "🏅", "🎖", "⭐"], by the names of the characters
emojis ==
    <<"1st_place_medal", "2nd_place_medal", "3rd_place_medal", "sports_medal",
      "military_medal", "star">>

\* emojis[i] if i < len(emojis) else "•", for the 0-based index i
EmojiAt(i) == IF i < Len(emojis) THEN emojis[i + 1] ELSE "bullet"

\* one line of a message
Line(kind, emoji, time, cycles, hours) ==
    [kind |-> kind, emoji |-> emoji, time |-> time, cycles |-> cycles, hours |-> hours]

\* a line without values
FixedLine(kind) == Line(kind, "", <<>>, 0, <<>>)

\* f"{emoji} *{format_time(time)}*  —  {cycles} cycles ({cycles_to_hours(cycles)})"
RecommendationLine(i, rec) ==
    Line("recommendation", EmojiAt(i), format_time(rec.time), rec.cycles,
         cycles_to_hours(rec.cycles))

\* slip: the loop runs over reversed(recs)
RecommendationLinesReversed(recs) ==
    [k \in 1..Len(recs) |-> RecommendationLine(k - 1, recs[Len(recs) + 1 - k])]

\* for i, (time, cycles) in enumerate(recs): lines.append(...)
RecommendationLines(recs) ==
    [k \in 1..Len(recs) |-> RecommendationLine(k - 1, recs[k])]

\* the two closing lines
ClosingLines == <<FixedLine("each_cycle"), FixedLine("fall_asleep_included")>>

build_bedtime_message(recs, wake_time) ==
    << Line("wake_up_time", "", format_time(wake_time), 0, <<>>),
       FixedLine("recommended_bedtimes") >>
    \o RecommendationLines(recs) \o ClosingLines

build_wake_message(recs, sleep_time) ==
    << Line("bedtime", "", format_time(sleep_time), 0, <<>>),
       FixedLine("recommended_wake_up_times") >>
    \o RecommendationLines(recs) \o ClosingLines

---------------------------------------------------------------------------
(* SpecCalc: the calculators applied to every time of day *)

\* every datetime the program can hold: a day, any hour and minute; the
\* seconds are 0 after parse_time and anything after datetime.now()
Datetimes ==
    [day : 1..MaxDay, hour : 0..23, minute : 0..59, second : {0, 59}]

ParseIdle ==
    /\ parts = None
    /\ text = <<>>
    /\ now = None
    /\ handler = "idle"
    /\ result = None

CalcIdle ==
    /\ input = None
    /\ called = {}
    /\ bedtimes = <<>>
    /\ wake_times = <<>>

MessageIdle ==
    /\ bed_message = <<>>
    /\ wake_message = <<>>

ConcIdle == frames = <<>>

BotIdle ==
    /\ conv = END
    /\ context_user_data = {}
    /\ last = None
    /\ opened = <<>>

InitCalc ==
    /\ input \in Datetimes
    /\ called = {}
    /\ bedtimes = <<>>
    /\ wake_times = <<>>
    /\ ParseIdle
    /\ MessageIdle
    /\ ConcIdle
    /\ BotIdle

CallCalculateBedtimes ==
    /\ handler = "idle"
    /\ "calculate_bedtimes" \notin called
    /\ bedtimes' = calculate_bedtimes(input)
    /\ called' = called \cup {"calculate_bedtimes"}
    /\ UNCHANGED <<input, wake_times>>
    /\ UNCHANGED <<parseVars, messageVars, concVars, botVars>>

CallCalculateWakeTimes ==
    /\ handler = "idle"
    /\ "calculate_wake_times" \notin called
    /\ wake_times' = calculate_wake_times(input)
    /\ called' = called \cup {"calculate_wake_times"}
    /\ UNCHANGED <<input, bedtimes>>
    /\ UNCHANGED <<parseVars, messageVars, concVars, botVars>>

\* msg = build_bedtime_message(bedtimes, wake_time), src/bot.py:216
CallBuildBedtimeMessage ==
    /\ "calculate_bedtimes" \in called
    /\ bed_message = <<>>
    /\ bed_message' = build_bedtime_message(bedtimes, input)
    /\ UNCHANGED wake_message
    /\ UNCHANGED <<calcVars, parseVars, concVars, botVars>>

\* msg = build_wake_message(wake_times, sleep_time), src/bot.py:232
CallBuildWakeMessage ==
    /\ "calculate_wake_times" \in called
    /\ wake_message = <<>>
    /\ wake_message' = build_wake_message(wake_times, input)
    /\ UNCHANGED bed_message
    /\ UNCHANGED <<calcVars, parseVars, concVars, botVars>>

NextCalc ==
    \/ CallCalculateBedtimes
    \/ CallCalculateWakeTimes
    \/ CallBuildBedtimeMessage
    \/ CallBuildWakeMessage

SpecCalc == InitCalc /\ [][NextCalc]_vars

---------------------------------------------------------------------------
(* The handlers of a text message, src/bot.py:205-234 and 290-317 *)

\* context.user_data, a dict, as the set of its <<key, value>> items
DictHas(d, k, v) == <<k, v>> \in d
\* slip: the key is read and left in the dict
DictPopNothing(d, k) == d

DictPop(d, k) == {kv \in d : kv[1] # k}
DictSet(d, k, v) == DictPop(d, k) \cup {<<k, v>>}

\* one reply_text call: which message it sends and the lists the message is
\* built from
Reply(kind, bed, wakes) == [kind |-> kind, bedtimes |-> bed, wake_times |-> wakes]

\* what a handler did: the value it returns, the reply it sent, the
\* calculators it called with their arguments, and what parse_time gave it
Handled(ret, reply, calls, parsed) ==
    [ret |-> ret, reply |-> reply, calls |-> calls, parsed |-> parsed]

\* slip: receive_wake_time goes on waiting after it has answered
ReceiveWakeTimeStaysWaiting(wake_time) ==
    IF wake_time = None
    THEN Handled(WAITING_FOR_WAKE_TIME, Reply("retry_wake", <<>>, <<>>), <<>>, wake_time)
    ELSE Handled(WAITING_FOR_WAKE_TIME,
                 Reply("bedtimes", calculate_bedtimes(wake_time), <<>>),
                 << <<"calculate_bedtimes", wake_time>> >>, wake_time)

\* receive_wake_time from line 208 on, wake_time = parse_time(user_input)
ReceiveWakeTimeParsed(wake_time) ==
    IF wake_time = None
    THEN Handled(WAITING_FOR_WAKE_TIME, Reply("retry_wake", <<>>, <<>>), <<>>, wake_time)
    ELSE Handled(END, Reply("bedtimes", calculate_bedtimes(wake_time), <<>>),
                 << <<"calculate_bedtimes", wake_time>> >>, wake_time)

receive_wake_time(txt, clock) == ReceiveWakeTimeParsed(parse_time(txt, clock))

\* receive_sleep_time from line 224 on, sleep_time = parse_time(user_input)
ReceiveSleepTimeParsed(sleep_time) ==
    IF sleep_time = None
    THEN Handled(WAITING_FOR_SLEEP_TIME, Reply("retry_sleep", <<>>, <<>>), <<>>, sleep_time)
    ELSE Handled(END, Reply("wake_times", <<>>, calculate_wake_times(sleep_time)),
                 << <<"calculate_wake_times", sleep_time>> >>, sleep_time)

receive_sleep_time(txt, clock) == ReceiveSleepTimeParsed(parse_time(txt, clock))

\* slip: a datetime at midnight counts as false, as a datetime.time at
\* midnight did before Python 3.5
TruthyButMidnight(value) == value # None /\ <<value.hour, value.minute>> # <<0, 0>>

\* "if parsed:": None is false, every datetime is true
Truthy(value) == value # None

\* slip: the else branch computes the bedtimes and leaves out the wake times
RouterDefaultBedtimesOnly(parsed) ==
    IF Truthy(parsed)
    THEN Handled(END, Reply("both", calculate_bedtimes(parsed), <<>>),
                 << <<"calculate_bedtimes", parsed>> >>, parsed)
    ELSE Handled(END, Reply("hint", <<>>, <<>>), <<>>, parsed)

\* message_router's else branch from line 302 on, parsed = parse_time(text)
RouterDefaultParsed(parsed) ==
    IF Truthy(parsed)
    THEN Handled(END,
                 Reply("both", calculate_bedtimes(parsed), calculate_wake_times(parsed)),
                 << <<"calculate_bedtimes", parsed>>, <<"calculate_wake_times", parsed>> >>,
                 parsed)
    ELSE Handled(END, Reply("hint", <<>>, <<>>), <<>>, parsed)

\* message_router's else branch, src/bot.py:299-317
RouterDefault(txt, clock) == RouterDefaultParsed(parse_time(txt, clock))

\* message_router: what it did, and user_data as it leaves it
message_router(txt, clock, user_data) ==
    IF DictHas(user_data, "expecting", "wake")
    THEN [done |-> receive_wake_time(txt, clock),
          user_data |-> DictPop(user_data, "expecting")]
    ELSE IF DictHas(user_data, "expecting", "sleep")
    THEN [done |-> receive_sleep_time(txt, clock),
          user_data |-> DictPop(user_data, "expecting")]
    ELSE [done |-> RouterDefault(txt, clock), user_data |-> user_data]

---------------------------------------------------------------------------
(* The texts users send, after the examples of src/bot.py:158-159, 166,     *)
(* 174: an hour, maybe a colon and a minute, maybe blanks, maybe a          *)
(* meridiem, maybe blanks around it all; and texts that are no time         *)

\* n in decimal, with a leading zero when padded and below 10
Decimal(n, padded) ==
    LET d(k) == DigitChars[k + 1]
    IN  IF n < 10
        THEN (IF padded THEN <<"0", d(n)>> ELSE <<d(n)>>)
        ELSE IF n < 100
        THEN <<d(n \div 10), d(n % 10)>>
        ELSE <<d(n \div 100), d((n \div 10) % 10), d(n % 10)>>

\* n blanks
Blanks(n) == [i \in 1..n |-> " "]

\* the text written from its parts; minute -1 is a text with no colon and
\* no minute
Render(p) ==
    IF p.kind = "raw"
    THEN p.raw
    ELSE p.lead \o Decimal(p.hour, p.hpad)
         \o (IF p.minute >= 0 THEN <<":">> \o Decimal(p.minute, p.mpad) ELSE <<>>)
         \o p.sep \o p.mer \o p.trail

Part(kind, hour, hpad, minute, mpad, sep, mer, lead, trail, raw) ==
    [kind |-> kind, hour |-> hour, hpad |-> hpad, minute |-> minute, mpad |-> mpad,
     sep |-> sep, mer |-> mer, lead |-> lead, trail |-> trail, raw |-> raw]

AMs == {<<"A", "M">>, <<"a", "m">>, <<"A", "m">>, <<"a", "M">>}
PMs == {<<"P", "M">>, <<"p", "m">>, <<"P", "m">>, <<"p", "M">>}

\* every hour and minute, with and without a leading zero, 24-hour and with
\* a meridiem, with and without a blank before it
GridParts ==
    {Part("time", h, hp, m, mp, sep, mer, <<>>, <<>>, <<>>) :
        h \in 0..MaxHourText, hp \in BOOLEAN, m \in -1..MaxMinuteText, mp \in BOOLEAN,
        sep \in {<<>>, <<" ">>}, mer \in {<<>>, <<"A", "M">>, <<"p", "m">>}}

\* some hours and minutes with every spelling of the meridiem, runs of
\* blanks and a tab before it, blanks around the text, and meridiems that
\* are none
VariantParts ==
    {Part("time", h, FALSE, m, TRUE, sep, mer, lead, trail, <<>>) :
        h \in {0, 7, 12, 13}, m \in {-1, 0, 30, 60},
        sep \in {Blanks(n) : n \in 0..MaxSpaces} \cup {<<"\t">>},
        mer \in AMs \cup PMs \cup {<<"A">>, <<"x", "m">>, <<"P", "M", "x">>},
        lead \in {<<>>, <<" ">>}, trail \in {<<>>, <<" ">>, <<"\t", " ">>}}

\* texts that are no time, or a time in a format that is not accepted
RawTexts ==
    { <<>>, <<" ">>, <<"b", "a", "n", "a", "n", "a">>, <<"7">>, <<"1", "9">>,
      <<":">>, <<"7", ":">>, <<":", "3", "0">>, <<"7", ".", "3", "0">>,
      <<"7", "3", "0">>, <<"7", ":", "3", "0", ":", "0", "0">>,
      <<"7", " ", ":", "3", "0">>, <<"7", ":", " ", "3", "0">>,
      <<"A", "M">>, <<"7", ":", "3", "0", " ", "a", " ", "m">>,
      <<"0", "0", "7", ":", "3", "0">>, <<"7", ":", "0", "3", "0">>,
      <<"-", "7", ":", "3", "0">> }

RawParts == {Part("raw", 0, FALSE, -1, FALSE, <<>>, <<>>, <<>>, <<>>, t) : t \in RawTexts}

\* a padded number of two digits or more is written as the unpadded one
Parts ==
    {p \in GridParts \cup VariantParts \cup RawParts :
        /\ p.hpad => p.hour < 10
        /\ p.mpad => p.minute < 10}

\* what datetime.now() returns while a handler runs: the date is kept by
\* parse_time, the clock time is not
NowSamples ==
    { [day |-> MaxDay, hour |-> 13, minute |-> 37, second |-> 59],
      [day |-> 1, hour |-> 0, minute |-> 0, second |-> 0] }

\* user_data when a text arrives
UserDatas == { {}, {<<"expecting", "wake">>}, {<<"expecting", "sleep">>} }

---------------------------------------------------------------------------
(* SpecParse: parse_time and the text handlers applied to every text *)

InitParse ==
    /\ parts \in Parts
    /\ text = Render(parts)
    /\ now \in NowSamples
    /\ handler = "ready"
    /\ result = None
    /\ CalcIdle
    /\ MessageIdle
    /\ ConcIdle
    /\ BotIdle

CallParseTime ==
    /\ handler = "ready"
    /\ handler' = "parse_time"
    /\ result' = parse_time_run(text, now)
    /\ UNCHANGED <<parts, text, now>>
    /\ UNCHANGED <<calcVars, messageVars, concVars, botVars>>

CallReceiveWakeTime ==
    /\ handler = "ready"
    /\ handler' = "receive_wake_time"
    /\ result' = [done |-> receive_wake_time(text, now), user_data |-> {}]
    /\ UNCHANGED <<parts, text, now>>
    /\ UNCHANGED <<calcVars, messageVars, concVars, botVars>>

CallReceiveSleepTime ==
    /\ handler = "ready"
    /\ handler' = "receive_sleep_time"
    /\ result' = [done |-> receive_sleep_time(text, now), user_data |-> {}]
    /\ UNCHANGED <<parts, text, now>>
    /\ UNCHANGED <<calcVars, messageVars, concVars, botVars>>

CallMessageRouter ==
    /\ handler = "ready"
    /\ handler' = "message_router"
    /\ \E user_data \in UserDatas : result' = message_router(text, now, user_data)
    /\ UNCHANGED <<parts, text, now>>
    /\ UNCHANGED <<calcVars, messageVars, concVars, botVars>>

NextParse ==
    \/ CallParseTime
    \/ CallReceiveWakeTime
    \/ CallReceiveSleepTime
    \/ CallMessageRouter

SpecParse == InitParse /\ [][NextParse]_vars

---------------------------------------------------------------------------
(* SpecConc: calls of the calculators made for several users, interleaved   *)
(* statement by statement.  A call's frame holds its argument, its loop     *)
(* variable and the list it builds; the list object lives in lists, under   *)
(* the key Buffer gives the caller.                                         *)

Users == 1..NumUsers

\* a key that is no user's: the list all calls would share
SharedList == NumUsers + 1

\* slip: the result list is one object for all calls (a module-level list,
\* or a mutable default argument)
BufferShared(u) == SharedList

\* "bedtimes = []" and "wake_times = []" make a new list in every call
Buffer(u) == u

\* the datetimes the calls are made with
ConcInputs ==
    { [day |-> 1, hour |-> 7, minute |-> 0, second |-> 0],
      [day |-> MaxDay, hour |-> 23, minute |-> 30, second |-> 59] }

NoFrame ==
    [fn |-> "none", arg |-> None, given |-> None, pc |-> "idle", cycles |-> 0,
     base |-> None, ret |-> <<>>, overlapped |-> FALSE]

InitConc ==
    /\ frames = [calls |-> [u \in Users |-> NoFrame],
                 lists |-> [k \in Users \cup {SharedList} |-> <<>>]]
    /\ CalcIdle
    /\ ParseIdle
    /\ MessageIdle
    /\ BotIdle

\* a handler calls a calculator: the list is made (lines 43, 53), and
\* fall_asleep_time computed (line 54)
ConcCall(u) ==
    /\ frames.calls[u].pc \in {"idle", "done"}
    /\ \E fn \in {"calculate_bedtimes", "calculate_wake_times"}, arg \in ConcInputs :
           frames' =
               [calls |-> [frames.calls EXCEPT ![u] =
                              [fn |-> fn, arg |-> arg, given |-> arg, pc |-> "loop",
                               cycles |-> IF fn = "calculate_bedtimes"
                                          THEN MAX_CYCLES ELSE MIN_CYCLES,
                               base |-> IF fn = "calculate_bedtimes"
                                        THEN arg ELSE FallAsleepTime(arg),
                               ret |-> <<>>, overlapped |-> FALSE]],
                lists |-> [frames.lists EXCEPT ![Buffer(u)] = <<>>]]
    /\ UNCHANGED <<calcVars, parseVars, messageVars, botVars>>

\* the for loop goes on
ConcLoopOn(f) ==
    IF f.fn = "calculate_bedtimes" THEN f.cycles > BedtimesStop ELSE f.cycles < WakeTimesStop

\* the entry one pass of the loop appends (lines 45-47, 56-58)
ConcEntry(f) ==
    [time   |-> IF f.fn = "calculate_bedtimes"
                THEN SubMinutes(f.base, BedtimeTotalSleep(f.cycles))
                ELSE AddMinutes(f.base, f.cycles * SLEEP_CYCLE_MINUTES),
     cycles |-> f.cycles]

\* the calls of other users that are under way when u takes a step
Overlapping(u) == {v \in Users : v # u /\ frames.calls[v].pc = "loop"}

\* one pass of the for loop
ConcLoop(u) ==
    /\ frames.calls[u].pc = "loop"
    /\ ConcLoopOn(frames.calls[u])
    /\ frames' =
           [calls |-> [v \in Users |->
                          IF v = u
                          THEN [frames.calls[u] EXCEPT
                                   !.cycles = IF frames.calls[u].fn = "calculate_bedtimes"
                                              THEN @ - 1 ELSE @ + 1,
                                   !.overlapped = @ \/ Overlapping(u) # {}]
                          ELSE IF v \in Overlapping(u)
                          THEN [frames.calls[v] EXCEPT !.overlapped = TRUE]
                          ELSE frames.calls[v]],
            lists |-> [frames.lists EXCEPT
                          ![Buffer(u)] = Append(@, ConcEntry(frames.calls[u]))]]
    /\ UNCHANGED <<calcVars, parseVars, messageVars, botVars>>

\* "return bedtimes", "return wake_times" (lines 48, 59)
ConcReturn(u) ==
    /\ frames.calls[u].pc = "loop"
    /\ ~ConcLoopOn(frames.calls[u])
    /\ frames' =
           [calls |-> [frames.calls EXCEPT
                          ![u] = [@ EXCEPT !.pc = "done",
                                           !.ret = frames.lists[Buffer(u)]]],
            lists |-> frames.lists]
    /\ UNCHANGED <<calcVars, parseVars, messageVars, botVars>>

NextConc == \E u \in Users : ConcCall(u) \/ ConcLoop(u) \/ ConcReturn(u)

SpecConc == InitConc /\ [][NextConc]_vars

---------------------------------------------------------------------------
(* SpecBot: one user's updates, handled one after the other by the handlers *)
(* main registers (src/bot.py:327-350).  An update goes to the first        *)
(* handler of the list that accepts it: the command handlers of /start,     *)
(* /help, /now and /info, the callback query handler, the conversation      *)
(* handler, and last the handler of free text.                              *)

\* the texts the user sends: two times and two texts parse_time rejects
BotTexts ==
    { <<"7", ":", "0", "0">>, <<"1", "1", " ", "p", "m">>,
      <<"b", "a", "n", "a", "n", "a">>, <<"1", "3", " ", "P", "M">> }

\* the conversation handler stores the state its handler returns; END
\* ends the conversation
InConversation(state, ret) == ret

\* slip: the callback query handler's return value is taken as the state of
\* the conversation
OutsideConversationApplied(state, ret) == ret

\* a handler registered outside the conversation handler: the application
\* drops the value it returns
OutsideConversation(state, ret) == state

\* the handlers that read no text
start == Handled(None, Reply("menu", <<>>, <<>>), <<>>, None)
help_command == Handled(None, Reply("help", <<>>, <<>>), <<>>, None)
info_command == Handled(None, Reply("info", <<>>, <<>>), <<>>, None)
wake_command == Handled(WAITING_FOR_WAKE_TIME, Reply("ask_wake", <<>>, <<>>), <<>>, None)
sleep_command == Handled(WAITING_FOR_SLEEP_TIME, Reply("ask_sleep", <<>>, <<>>), <<>>, None)
cancel == Handled(END, Reply("cancelled", <<>>, <<>>), <<>>, None)

\* now_command, clock = datetime.now()
now_command(clock) ==
    Handled(None, Reply("wake_times", <<>>, calculate_wake_times(clock)),
            << <<"calculate_wake_times", clock>> >>, None)

\* button_handler: what it did, and user_data as it leaves it
button_handler(data, clock, user_data) ==
    IF data = "ask_wake"
    THEN [done |-> Handled(WAITING_FOR_WAKE_TIME, Reply("ask_wake", <<>>, <<>>), <<>>, None),
          user_data |-> DictSet(user_data, "expecting", "wake")]
    ELSE IF data = "ask_sleep"
    THEN [done |-> Handled(WAITING_FOR_SLEEP_TIME, Reply("ask_sleep", <<>>, <<>>), <<>>, None),
          user_data |-> DictSet(user_data, "expecting", "sleep")]
    ELSE IF data = "sleep_now"
    THEN [done |-> Handled(END, Reply("wake_times", <<>>, calculate_wake_times(clock)),
                           << <<"calculate_wake_times", clock>> >>, None),
          user_data |-> user_data]
    ELSE IF data = "info"
    THEN [done |-> Handled(END, Reply("info", <<>>, <<>>), <<>>, None),
          user_data |-> user_data]
    ELSE [done |-> Handled(END, None, <<>>, None), user_data |-> user_data]

\* the record of the update handled last: the update, the handler that took
\* it, what the handler did, and the state the update arrived in
Update(kind, hname, txt, clock, done) ==
    [update |-> kind, handler |-> hname, text |-> txt, clock |-> clock, done |-> done,
     conv_before |-> conv, user_data_before |-> context_user_data,
     opened_before |-> opened]

\* the prompt a handler has just sent, the most recently opened one: its
\* mode, what opened it, whether a text was rejected since, and whether no
\* other prompt was open when it was sent
Open(mode, by) ==
    << [mode |-> mode, by |-> by, retried |-> FALSE, only |-> opened = <<>>] >>

\* the open prompt after a text got the reply kind: a list of times answers
\* it, any other reply leaves it open
AfterReply(kind) ==
    IF kind \in {"bedtimes", "wake_times", "both"}
    THEN <<>>
    ELSE [i \in 1..Len(opened) |-> [opened[i] EXCEPT !.retried = TRUE]]

BotFrame == UNCHANGED <<calcVars, parseVars, messageVars, concVars>>

InitBot ==
    /\ BotIdle
    /\ CalcIdle
    /\ ParseIdle
    /\ MessageIdle
    /\ ConcIdle

\* /start, /help or /info: the command handlers registered first take them
\* in every state
MenuCommand ==
    /\ \E kind \in {"/start", "/help", "/info"} :
           last' = Update(kind,
                          IF kind = "/start" THEN "start"
                          ELSE IF kind = "/help" THEN "help_command" ELSE "info_command",
                          <<>>, None,
                          IF kind = "/start" THEN start
                          ELSE IF kind = "/help" THEN help_command ELSE info_command)
    /\ UNCHANGED <<conv, context_user_data, opened>>
    /\ BotFrame

\* /now: its command handler stands before the conversation handler
NowCommand ==
    /\ \E clock \in NowSamples :
           last' = Update("/now", "now_command", <<>>, clock, now_command(clock))
    /\ UNCHANGED <<conv, context_user_data, opened>>
    /\ BotFrame

\* /wake, an entry point: the conversation handler takes it when the user
\* is in no conversation
WakeCommand ==
    /\ conv = END
    /\ last' = Update("/wake", "wake_command", <<>>, None, wake_command)
    /\ conv' = InConversation(conv, wake_command.ret)
    /\ opened' = Open("wake", "command")
    /\ UNCHANGED context_user_data
    /\ BotFrame

\* /sleep, the other entry point
SleepCommand ==
    /\ conv = END
    /\ last' = Update("/sleep", "sleep_command", <<>>, None, sleep_command)
    /\ conv' = InConversation(conv, sleep_command.ret)
    /\ opened' = Open("sleep", "command")
    /\ UNCHANGED context_user_data
    /\ BotFrame

\* /cancel, the fallback: the conversation handler takes it in both waiting
\* states
Cancel ==
    /\ conv # END
    /\ last' = Update("/cancel", "cancel", <<>>, None, cancel)
    /\ conv' = InConversation(conv, cancel.ret)
    /\ opened' = <<>>
    /\ UNCHANGED context_user_data
    /\ BotFrame

\* a command no handler takes: /wake and /sleep inside a conversation (the
\* entry points are not tried again), /cancel outside (the fallbacks are
\* tried in a conversation only); the handler of free text refuses commands
Unhandled ==
    /\ \E kind \in {"/wake", "/sleep", "/cancel"} :
           /\ IF kind = "/cancel" THEN conv = END ELSE conv # END
           /\ last' = Update(kind, "none", <<>>, None, None)
    /\ UNCHANGED <<conv, context_user_data, opened>>
    /\ BotFrame

\* a button of the menu: the callback query handler takes it in every state
Button ==
    /\ \E data \in {"ask_wake", "ask_sleep", "sleep_now", "info"}, clock \in NowSamples :
           /\ last' = Update(data, "button_handler", <<>>,
                             IF data = "sleep_now" THEN clock ELSE None,
                             button_handler(data, clock, context_user_data).done)
           /\ context_user_data' = button_handler(data, clock, context_user_data).user_data
           /\ conv' = OutsideConversation(conv,
                          button_handler(data, clock, context_user_data).done.ret)
           /\ opened' = IF data = "ask_wake" THEN Open("wake", "button")
                        ELSE IF data = "ask_sleep" THEN Open("sleep", "button")
                        ELSE opened
    /\ BotFrame

\* the texts parse_time accepts
ParseableTexts == {txt \in BotTexts : \A clock \in NowSamples : parse_time(txt, clock) # None}

\* a text from txts in a waiting state: the conversation handler gives it
\* to the handler of the state
ConversationTextDone(txt, clock, done) ==
    /\ last' = Update("text",
                      IF conv = WAITING_FOR_WAKE_TIME
                      THEN "receive_wake_time" ELSE "receive_sleep_time",
                      txt, clock, done)
    /\ conv' = InConversation(conv, done.ret)
    /\ opened' = AfterReply(done.reply.kind)

ConversationText(txts) ==
    /\ conv # END
    /\ \E txt \in txts, clock \in NowSamples :
           ConversationTextDone(txt, clock,
                                IF conv = WAITING_FOR_WAKE_TIME
                                THEN receive_wake_time(txt, clock)
                                ELSE receive_sleep_time(txt, clock))
    /\ UNCHANGED context_user_data
    /\ BotFrame

\* a text outside a conversation: the handler registered last, message_router
RoutedTextDone(txt, clock, routed) ==
    /\ last' = Update("text", "message_router", txt, clock, routed.done)
    /\ context_user_data' = routed.user_data
    /\ conv' = OutsideConversation(conv, routed.done.ret)
    /\ opened' = AfterReply(routed.done.reply.kind)

RoutedText ==
    /\ conv = END
    /\ \E txt \in BotTexts, clock \in NowSamples :
           RoutedTextDone(txt, clock, message_router(txt, clock, context_user_data))
    /\ BotFrame

NextBot ==
    \/ MenuCommand
    \/ NowCommand
    \/ WakeCommand
    \/ SleepCommand
    \/ Cancel
    \/ Unhandled
    \/ Button
    \/ ConversationText(BotTexts)
    \/ RoutedText

SpecBot == InitBot /\ [][NextBot]_vars

\* the user in a conversation does not go on for ever without sending a
\* time parse_time accepts or /cancel
UserEndsConversation == Cancel \/ ConversationText(ParseableTexts)

SpecBotFair == InitBot /\ [][NextBot]_vars /\ WF_vars(UserEndsConversation)

---------------------------------------------------------------------------
(* Properties of the calculators, checked under SpecCalc *)

\* the hour and minute of a datetime, its date dropped
HM(dt) == <<dt.hour, dt.minute>>

\* the minutes since midnight of a datetime's time of day
TimeOfDay(dt) == dt.hour * 60 + dt.minute

\* the hour and minute that lie m minutes after midnight, modulo 24 hours
ClockAt(m) == <<(m % 1440) \div 60, m % 60>>

\* a result list as <<hour, minute, cycles>> triples
Clocks(list) ==
    [i \in 1..Len(list) |-> <<list[i].time.hour, list[i].time.minute, list[i].cycles>>]

BedtimesCalled == "calculate_bedtimes" \in called
WakeTimesCalled == "calculate_wake_times" \in called

\* C1: for every wake time w and every cycle count c in 4..6,
\* calculate_bedtimes(w) holds an entry with cycle count c whose hour:minute
\* is w minus (c*90+14) minutes, modulo 24 hours.
C1_BedtimesFollowFormula ==
    BedtimesCalled =>
        \A c \in 4..6 :
            \E i \in DOMAIN bedtimes :
                /\ bedtimes[i].cycles = c
                /\ HM(bedtimes[i].time) = ClockAt(TimeOfDay(input) - (c * 90 + 14))

\* C1 witness: bedtimes computed for wake time 00:30, which wrap into the
\* previous day (6 cycles: 15:16)
C1_Witness ==
    /\ BedtimesCalled
    /\ HM(input) = <<0, 30>>
    /\ Len(bedtimes) > 0
    /\ HM(bedtimes[1].time) = <<15, 16>>
    /\ bedtimes[1].time.day = input.day - 1

\* C2: for every sleep time s and every cycle count c in 4..6,
\* calculate_wake_times(s) holds an entry with cycle count c whose
\* hour:minute is s plus 14 plus c*90 minutes, modulo 24 hours.
C2_WakeTimesFollowFormula ==
    WakeTimesCalled =>
        \A c \in 4..6 :
            \E i \in DOMAIN wake_times :
                /\ wake_times[i].cycles = c
                /\ HM(wake_times[i].time) = ClockAt(TimeOfDay(input) + 14 + c * 90)

\* C2 witness: wake times computed for sleep time 22:30, which wrap past
\* midnight (4 cycles: 04:44 of the next day)
C2_Witness ==
    /\ WakeTimesCalled
    /\ HM(input) = <<22, 30>>
    /\ Len(wake_times) > 0
    /\ HM(wake_times[1].time) = <<4, 44>>
    /\ wake_times[1].time.day = input.day + 1

\* C3: calculate_bedtimes returns exactly 3 entries with cycle counts 6, 5, 4
\* in list order, calculate_wake_times exactly 3 entries with cycle counts
\* 4, 5, 6 in list order; no entry carries a cycle count outside 4..6.
C3_ThreeEntriesInOrder ==
    /\ BedtimesCalled =>
           /\ Len(bedtimes) = 3
           /\ [i \in 1..3 |-> bedtimes[i].cycles] = <<6, 5, 4>>
    /\ WakeTimesCalled =>
           /\ Len(wake_times) = 3
           /\ [i \in 1..3 |-> wake_times[i].cycles] = <<4, 5, 6>>
    /\ \A i \in DOMAIN bedtimes : bedtimes[i].cycles \in 4..6
    /\ \A i \in DOMAIN wake_times : wake_times[i].cycles \in 4..6

\* C3 witness: both calculators have run on the same input
C3_Witness ==
    /\ BedtimesCalled
    /\ WakeTimesCalled
    /\ Len(bedtimes) = 3
    /\ Len(wake_times) = 3

\* C4 as stated: for wake time 07:00 calculate_bedtimes returns
\* [(22:46, 6), (00:16, 5), (01:46, 4)].
C4_Original ==
    (BedtimesCalled /\ HM(input) = <<7, 0>>) =>
        Clocks(bedtimes) = << <<22, 46, 6>>, <<0, 16, 5>>, <<1, 46, 4>> >>

\* C4 amended: for wake time 07:00 calculate_bedtimes returns
\* [(21:46, 6), (23:16, 5), (00:46, 4)], in that order.
C4_Bedtimes0700 ==
    (BedtimesCalled /\ HM(input) = <<7, 0>>) =>
        Clocks(bedtimes) = << <<21, 46, 6>>, <<23, 16, 5>>, <<0, 46, 4>> >>

\* C4 witness: bedtimes computed for wake time 07:00
C4_Witness ==
    /\ BedtimesCalled
    /\ HM(input) = <<7, 0>>
    /\ Len(bedtimes) = 3

\* C5: round trip. The cycle-6 entry of calculate_bedtimes(t) plus (6*90+14)
\* minutes is t modulo 24 hours, and the cycle-4 entry of
\* calculate_wake_times(t) minus (14+4*90) minutes is t modulo 24 hours.
C5_RoundTrip ==
    /\ BedtimesCalled =>
           \E i \in DOMAIN bedtimes :
               /\ bedtimes[i].cycles = 6
               /\ ClockAt(TimeOfDay(bedtimes[i].time) + (6 * 90 + 14)) = HM(input)
    /\ WakeTimesCalled =>
           \E i \in DOMAIN wake_times :
               /\ wake_times[i].cycles = 4
               /\ ClockAt(TimeOfDay(wake_times[i].time) - (14 + 4 * 90)) = HM(input)

\* C5 witness: both calculators have run on 03:07, where the bedtime lies on
\* the previous day and the wake time on the same day
C5_Witness ==
    /\ BedtimesCalled
    /\ WakeTimesCalled
    /\ HM(input) = <<3, 7>>
    /\ Len(bedtimes) = 3
    /\ Len(wake_times) = 3
    /\ HM(bedtimes[1].time) = <<17, 53>>
    /\ HM(wake_times[1].time) = <<9, 21>>

\* the hour:minute values of a list strictly increase in list order
ClockIncreasing(list) ==
    \A i \in 1..(Len(list) - 1) : TimeOfDay(list[i].time) < TimeOfDay(list[i + 1].time)

\* C6 as stated: for every sleep time the three hour:minute values returned
\* by calculate_wake_times strictly increase in list order, each consecutive
\* pair is 90 minutes apart, and the first is 14 + 4*90 minutes after the
\* sleep time.
C6_Original ==
    WakeTimesCalled =>
        /\ Len(wake_times) = 3
        /\ ClockIncreasing(wake_times)
        /\ \A i \in 1..2 :
               HM(wake_times[i + 1].time) = ClockAt(TimeOfDay(wake_times[i].time) + 90)
        /\ HM(wake_times[1].time) = ClockAt(TimeOfDay(input) + 14 + 4 * 90)

\* C6 amended: for every sleep time the three datetimes returned by
\* calculate_wake_times strictly increase in list order, each consecutive
\* pair exactly 90 minutes apart, the first 14 + 4*90 minutes after the sleep
\* time; their hour:minute values strictly increase exactly when the first
\* of them is before 21:00 (so for sleep time 23:00, and for every sleep
\* time outside 14:46..17:45), and otherwise wrap past midnight.
C6_WakeTimesSpacing ==
    WakeTimesCalled =>
        /\ Len(wake_times) = 3
        /\ \A i \in 1..2 :
               ToMinutes(wake_times[i + 1].time) = ToMinutes(wake_times[i].time) + 90
        /\ ToMinutes(wake_times[1].time) = ToMinutes(input) + 14 + 4 * 90
        /\ ClockIncreasing(wake_times) <=> TimeOfDay(wake_times[1].time) < 21 * 60
        /\ ClockIncreasing(wake_times) <=>
               ~(14 * 60 + 46 <= TimeOfDay(input) /\ TimeOfDay(input) <= 17 * 60 + 45)

\* C6 witness: wake times computed for sleep time 23:00 are 05:14, 06:44
\* and 08:14
C6_Witness ==
    /\ WakeTimesCalled
    /\ HM(input) = <<23, 0>>
    /\ Clocks(wake_times) = << <<5, 14, 4>>, <<6, 44, 5>>, <<8, 14, 6>> >>

---------------------------------------------------------------------------
(* Properties of parse_time and its callers, checked under SpecParse *)

ParseTimeCalled == handler = "parse_time"

\* the text is a 12-hour time: hour 1..12, no minute or minute 0..59, a
\* meridiem in any letter case, any blanks before it and around the text
Is12HourText(p) ==
    /\ p.kind = "time"
    /\ p.hour \in 1..12
    /\ p.minute \in -1..59
    /\ p.mer \in AMs \cup PMs

\* the text is a 24-hour time H:M
Is24HourText(p) ==
    /\ p.kind = "time"
    /\ p.hour \in 0..23
    /\ p.minute \in 0..59
    /\ p.mer = <<>>

\* the hour of the day of hour h of a 12-hour clock
HourOf12(h, mer) ==
    IF mer \in AMs
    THEN (IF h = 12 THEN 0 ELSE h)
    ELSE (IF h = 12 THEN 12 ELSE h + 12)

\* C7: for a 12-hour text with hour h in 1..12 and minute m in 0..59 (with
\* or without minutes, with or without blanks before the meridiem, meridiem
\* in any letter case) parse_time returns hour 0 for 12 AM, 12 for 12 PM, h
\* for 1..11 AM and h+12 for 1..11 PM, and minute m, or 0 for an hour-only
\* text; for a 24-hour text H:M it returns hour H and minute M.
C7_ParsedHourAndMinute ==
    ParseTimeCalled =>
        /\ Is12HourText(parts) =>
               /\ result.value # None
               /\ result.value.hour = HourOf12(parts.hour, parts.mer)
               /\ result.value.minute = (IF parts.minute = -1 THEN 0 ELSE parts.minute)
        /\ Is24HourText(parts) =>
               /\ result.value # None
               /\ result.value.hour = parts.hour
               /\ result.value.minute = parts.minute

\* C7 witness: parse_time has returned hour 12, minute 5 for "12:05pm"
C7_Witness ==
    /\ ParseTimeCalled
    /\ text = <<"1", "2", ":", "0", "5", "p", "m">>
    /\ result.value # None
    /\ HM(result.value) = <<12, 5>>

\* C8: parse_time rejects out-of-range values: a text with a meridiem whose
\* hour is 0 or above 12, a 24-hour text whose hour is above 23, and any
\* text whose minute is above 59 yield None, never a time.
C8_OutOfRangeRejected ==
    (ParseTimeCalled /\ parts.kind = "time") =>
        /\ (parts.mer \in AMs \cup PMs /\ (parts.hour = 0 \/ parts.hour > 12)) =>
               result.value = None
        /\ (parts.mer = <<>> /\ parts.hour > 23) => result.value = None
        /\ parts.minute > 59 => result.value = None

\* C8 witness: parse_time has returned None for "13:00 PM", after trying all
\* five formats
C8_Witness ==
    /\ ParseTimeCalled
    /\ text = <<"1", "3", ":", "0", "0", " ", "P", "M">>
    /\ result.value = None
    /\ Len(result.tried) = 5

\* a datetime whose clock time is in range
ValidTime(v) == v.hour \in 0..23 /\ v.minute \in 0..59 /\ v.second = 0

\* C9: parse_time returns, for every text, a time with 0 <= hour <= 23 and
\* 0 <= minute <= 59, or None when none of the five formats matches; no
\* ValueError reaches the caller; and receive_wake_time, receive_sleep_time
\* and message_router call a calculator only with the time parse_time gave,
\* never after None, which they answer with a retry prompt or the hint.
C9_TotalAndBranchedOn ==
    /\ ParseTimeCalled =>
           /\ result.value # ValueError
           /\ result.value = None \/ ValidTime(result.value)
           /\ result.value = None <=>
                  \A i \in 1..5 : strptime(Strip(text), formats[i]) = ValueError
    /\ handler \in {"receive_wake_time", "receive_sleep_time", "message_router"} =>
           /\ result.done.parsed = None <=> result.done.calls = <<>>
           /\ \A i \in DOMAIN result.done.calls :
                  /\ result.done.calls[i][2] = result.done.parsed
                  /\ ValidTime(result.done.calls[i][2])
           /\ result.done.parsed = None =>
                  /\ result.done.reply.kind \in {"retry_wake", "retry_sleep", "hint"}
                  /\ result.done.reply.bedtimes = <<>>
                  /\ result.done.reply.wake_times = <<>>

\* C9 witness: receive_wake_time has got None for "7.30", called no
\* calculator and asked again
C9_Witness ==
    /\ handler = "receive_wake_time"
    /\ text = <<"7", ".", "3", "0">>
    /\ result.done.parsed = None
    /\ result.done.calls = <<>>
    /\ result.done.reply.kind = "retry_wake"
    /\ result.done.ret = WAITING_FOR_WAKE_TIME

\* the formats that accept the stripped text s
Matching(s) == {i \in 1..Len(formats) : strptime(s, formats[i]) # ValueError}

\* the text whose characters are listed was parsed after trying exactly
\* the formats 1..k
TriedFor(chars, k) == text = chars => result.tried = [i \in 1..k |-> i]

\* C10: parse_time tries the five formats in the order 12-hour with minutes
\* and a blank, 12-hour with minutes and no blank, 24-hour with minutes,
\* 12-hour hour-only with a blank, 12-hour hour-only with no blank; the
\* result is the hour and minute of the first format that matches, and no
\* format after it is tried.
C10_FirstMatchWins ==
    ParseTimeCalled =>
        /\ TriedFor(<<"7", ":", "3", "0", " ", "A", "M">>, 1)
        /\ TriedFor(<<"7", ":", "3", "0", "A", "M">>, 2)
        /\ TriedFor(<<"2", "2", ":", "0", "0">>, 3)
        /\ TriedFor(<<"7", " ", "P", "M">>, 4)
        /\ TriedFor(<<"7", "P", "M">>, 5)
        /\ IF Matching(Strip(text)) = {}
           THEN /\ result.value = None
                /\ result.tried = <<1, 2, 3, 4, 5>>
           ELSE LET k == CHOOSE i \in Matching(Strip(text)) :
                             \A j \in Matching(Strip(text)) : i <= j
                    t == strptime(Strip(text), formats[k])
                IN  /\ result.tried = [i \in 1..k |-> i]
                    /\ result.value # None
                    /\ HM(result.value) = <<t.hour, t.minute>>
                    /\ result.value.day = now.day

\* C10 witness: "22:00" was parsed by the third format, after the first two
\* had failed, and the last two were not tried
C10_Witness ==
    /\ ParseTimeCalled
    /\ text = <<"2", "2", ":", "0", "0">>
    /\ result.tried = <<1, 2, 3>>
    /\ result.value # None
    /\ HM(result.value) = <<22, 0>>

---------------------------------------------------------------------------
(* Properties of the presenter, checked under SpecCalc *)

\* the recommendation lines of a message, top to bottom
Recommended(msg) == SelectSeq(msg, LAMBDA l : l.kind = "recommendation")

\* the hour and minute a line's "HH:MM AM" text reads as
LineClock(l) == HM(parse_time(l.time, [day |-> 1, hour |-> 0, minute |-> 0, second |-> 0]))

\* the lines show the entries of the list, one line each, in list order
ShowsInOrder(msg, list) ==
    /\ Len(Recommended(msg)) = Len(list)
    /\ \A i \in 1..Len(list) :
           /\ Recommended(msg)[i].cycles = list[i].cycles
           /\ LineClock(Recommended(msg)[i]) = HM(list[i].time)

\* C12: build_bedtime_message and build_wake_message emit exactly one line
\* per recommendation, in the order of the list they receive: the bedtime
\* message lists 6, 5, 4 cycles top to bottom, the wake message 4, 5, 6.
C12_PresenterKeepsOrder ==
    /\ bed_message # <<>> =>
           /\ ShowsInOrder(bed_message, bedtimes)
           /\ [i \in 1..Len(Recommended(bed_message)) |-> Recommended(bed_message)[i].cycles]
                  = <<6, 5, 4>>
    /\ wake_message # <<>> =>
           /\ ShowsInOrder(wake_message, wake_times)
           /\ [i \in 1..Len(Recommended(wake_message)) |-> Recommended(wake_message)[i].cycles]
                  = <<4, 5, 6>>

\* C12 witness: both messages built for 07:00; the bedtime message reads
\* 09:46 PM, 11:16 PM, 12:46 AM top to bottom
C12_Witness ==
    /\ bed_message # <<>>
    /\ wake_message # <<>>
    /\ HM(input) = <<7, 0>>
    /\ Len(bed_message) = 7
    /\ bed_message[3].time = <<"0", "9", ":", "4", "6", " ", "P", "M">>
    /\ bed_message[4].time = <<"1", "1", ":", "1", "6", " ", "P", "M">>
    /\ bed_message[5].time = <<"1", "2", ":", "4", "6", " ", "A", "M">>
    /\ bed_message[3].hours = <<"9", ".", "0", "h">>
    /\ bed_message[4].hours = <<"7", ".", "5", "h">>

---------------------------------------------------------------------------
(* Properties of interleaved calculator calls, checked under SpecConc *)

\* what the calculator of a finished call returns when it runs alone
Alone(f) ==
    IF f.fn = "calculate_bedtimes"
    THEN calculate_bedtimes(f.given)
    ELSE calculate_wake_times(f.given)

\* C11: the calculators are pure and need no coordination: a call changes
\* neither its input nor the state shared between callers (the conversation
\* state, user_data), two calls with the same input return equal lists, and
\* in every interleaving of calls made for different users each call
\* returns the list it returns when run alone.
C11_CallsDoNotInterfere ==
    /\ conv = END
    /\ context_user_data = {}
    /\ \A u \in Users :
           /\ frames.calls[u].pc # "idle" => frames.calls[u].arg = frames.calls[u].given
           /\ frames.calls[u].pc = "done" => frames.calls[u].ret = Alone(frames.calls[u])
    /\ \A u, v \in Users :
           (/\ frames.calls[u].pc = "done"
            /\ frames.calls[v].pc = "done"
            /\ frames.calls[u].fn = frames.calls[v].fn
            /\ frames.calls[u].given = frames.calls[v].given)
           => frames.calls[u].ret = frames.calls[v].ret

\* C11 witness: two calls that ran interleaved have both returned, one the
\* bedtimes and one the wake times of 07:00
C11_Witness ==
    /\ frames.calls[1].pc = "done"
    /\ frames.calls[2].pc = "done"
    /\ frames.calls[1].overlapped
    /\ frames.calls[2].overlapped
    /\ frames.calls[1].fn = "calculate_bedtimes"
    /\ frames.calls[2].fn = "calculate_wake_times"
    /\ HM(frames.calls[1].given) = <<7, 0>>
    /\ HM(frames.calls[2].given) = <<7, 0>>
    /\ Clocks(frames.calls[1].ret) = << <<21, 46, 6>>, <<23, 16, 5>>, <<0, 46, 4>> >>
    /\ Clocks(frames.calls[2].ret) = << <<13, 14, 4>>, <<14, 44, 5>>, <<16, 14, 6>> >>

---------------------------------------------------------------------------
(* Properties of the bot's handlers, checked under SpecBot and SpecBotFair *)

\* the update handled last was a text message
LastText == last # None /\ last.update = "text"

\* the reply that holds the list of one mode only, and the re-prompt of a mode
ListsOnly(mode) == IF mode = "wake" THEN "bedtimes" ELSE "wake_times"
RetryOf(mode) == IF mode = "wake" THEN "retry_wake" ELSE "retry_sleep"

\* the value user_data holds under 'expecting', "absent" when it holds none
Expecting(d) ==
    IF \E kv \in d : kv[1] = "expecting"
    THEN (CHOOSE kv \in d : kv[1] = "expecting")[2]
    ELSE "absent"

\* C13: a parse failure is recoverable and keeps the mode: after the user
\* opens a wake-time prompt (by /wake or by the ask_wake button) and sends a
\* text parse_time rejects, the bot re-prompts and still waits for a wake
\* time, so the next parseable text is answered with bedtimes only; the same
\* for a sleep-time prompt (by /sleep or the ask_sleep button) and wake
\* times only.
C13_ParseFailureKeepsMode ==
    (LastText /\ last.opened_before # <<>>) =>
        (last.opened_before[1].only =>
            /\ last.done.parsed = None =>
                   last.done.reply.kind = RetryOf(last.opened_before[1].mode)
            /\ (last.opened_before[1].retried /\ last.done.parsed # None) =>
                   last.done.reply.kind = ListsOnly(last.opened_before[1].mode))

\* C14: free text is routed by what the bot currently expects: however the
\* /wake and /sleep commands and the ask_wake and ask_sleep buttons are
\* interleaved, the next parseable text is interpreted in the mode of the
\* most recently opened prompt (bedtimes only for a wake prompt, wake times
\* only for a sleep prompt), and a prompt that has been answered decides no
\* later text: with no prompt open a parseable text gets both lists.
C14_RoutedByMostRecentPrompt ==
    (LastText /\ last.done.parsed # None) =>
        IF last.opened_before = <<>>
        THEN last.done.reply.kind = "both"
        ELSE ~last.opened_before[1].retried =>
                 last.done.reply.kind = ListsOnly(last.opened_before[1].mode)

\* C15: with no prompt pending (no conversation state, no 'expecting' flag)
\* a text parse_time accepts is answered with one message that holds the
\* bedtimes and the wake times of that same time, a text it rejects with
\* the hint and no calculation; no prompt is pending afterwards.
C15_TextWithoutPrompt ==
    (/\ LastText
     /\ last.conv_before = END
     /\ Expecting(last.user_data_before) = "absent")
    => /\ last.handler = "message_router"
       /\ last.done.parsed = parse_time(last.text, last.clock)
       /\ last.done.parsed # None =>
              /\ last.done.reply.kind = "both"
              /\ last.done.reply.bedtimes = calculate_bedtimes(last.done.parsed)
              /\ last.done.reply.wake_times = calculate_wake_times(last.done.parsed)
              /\ Len(last.done.reply.bedtimes) = 3
              /\ Len(last.done.reply.wake_times) = 3
       /\ last.done.parsed = None =>
              /\ last.done.reply = Reply("hint", <<>>, <<>>)
              /\ last.done.calls = <<>>
       /\ conv = END
       /\ Expecting(context_user_data) = "absent"

\* C15 witness: "7:00" arrived with no prompt pending and got both lists
C15_Witness ==
    /\ LastText
    /\ last.conv_before = END
    /\ last.user_data_before = {}
    /\ last.text = <<"7", ":", "0", "0">>
    /\ last.done.reply.kind = "both"
    /\ Clocks(last.done.reply.bedtimes) = << <<21, 46, 6>>, <<23, 16, 5>>, <<0, 46, 4>> >>
    /\ Clocks(last.done.reply.wake_times) = << <<13, 14, 4>>, <<14, 44, 5>>, <<16, 14, 6>> >>

\* a step out of a waiting state: a parseable text or /cancel ends the
\* conversation, an unparseable text leaves the waiting state as it was
WaitingStep ==
    (last # None /\ last.conv_before # END) =>
        /\ (last.update = "/cancel" /\ last.handler = "cancel") => conv = END
        /\ last.update = "text" =>
               /\ last.done.parsed = parse_time(last.text, last.clock)
               /\ conv = IF last.done.parsed # None THEN END ELSE last.conv_before
        /\ conv \in {END, last.conv_before}

\* C16: the /wake-/sleep conversation ends: from either waiting state a
\* parseable text or /cancel moves it to END and an unparseable text leaves
\* the waiting state unchanged; so, the user sending a parseable time or
\* /cancel at some time, every conversation reaches END.
C16_ConversationEnds ==
    /\ []WaitingStep
    /\ (conv = WAITING_FOR_WAKE_TIME) ~> (conv = END)
    /\ (conv = WAITING_FOR_SLEEP_TIME) ~> (conv = END)

\* C16 witness: a sleep conversation, after a rejected text, is ended by
\* "11 pm"
C16_Witness ==
    /\ LastText
    /\ last.conv_before = WAITING_FOR_SLEEP_TIME
    /\ last.opened_before # <<>>
    /\ last.opened_before[1].retried
    /\ last.text = <<"1", "1", " ", "p", "m">>
    /\ last.done.reply.kind = "wake_times"
    /\ conv = END

\* C17: sleep-now leaves pending prompts alone: /now and the sleep_now
\* button answer with the three wake times now + 14 + c*90 minutes for
\* c = 4, 5, 6, and leave the conversation state and the 'expecting' flag
\* as they were, whatever they were.
C17_SleepNowLeavesPrompts ==
    (last # None /\ last.update \in {"/now", "sleep_now"}) =>
        /\ last.done.reply.kind = "wake_times"
        /\ Len(last.done.reply.wake_times) = 3
        /\ \A i \in 1..3 :
               /\ last.done.reply.wake_times[i].cycles = i + 3
               /\ last.done.reply.wake_times[i].time =
                      AddMinutes(last.clock, 14 + (i + 3) * 90)
        /\ conv = last.conv_before
        /\ context_user_data = last.user_data_before

\* C17 witness: the sleep_now button was pressed at 13:37 in a wake
\* conversation with the flag at 'sleep'
C17_Witness ==
    /\ last # None
    /\ last.update = "sleep_now"
    /\ HM(last.clock) = <<13, 37>>
    /\ conv = WAITING_FOR_WAKE_TIME
    /\ last.conv_before = WAITING_FOR_WAKE_TIME
    /\ Expecting(context_user_data) = "sleep"
    /\ Clocks(last.done.reply.wake_times) = << <<19, 51, 4>>, <<21, 21, 5>>, <<22, 51, 6>> >>

\* C18: the 'expecting' flag is one-shot: it is always absent, 'wake' or
\* 'sleep'; only the ask_wake and ask_sleep buttons set it; and once
\* message_router has handled a text it is absent, parsed or not.
C18_ExpectingOneShot ==
    /\ context_user_data \in { {}, {<<"expecting", "wake">>}, {<<"expecting", "sleep">>} }
    /\ last # None =>
           /\ (/\ context_user_data # last.user_data_before
               /\ context_user_data # {})
              => \/ last.update = "ask_wake" /\ context_user_data = {<<"expecting", "wake">>}
                 \/ last.update = "ask_sleep" /\ context_user_data = {<<"expecting", "sleep">>}
           /\ last.handler = "message_router" => context_user_data = {}

\* C18 witness: message_router took a text it could not parse with the flag
\* at 'wake', and the flag is gone
C18_Witness ==
    /\ LastText
    /\ last.handler = "message_router"
    /\ last.user_data_before = {<<"expecting", "wake">>}
    /\ last.done.parsed = None
    /\ last.done.reply.kind = "retry_wake"
    /\ context_user_data = {}

====
